---- MODULE Spec2Model ----
(***************************************************************************)
(* The shortcut registry of templates/template_shortcuts_plugin.py         *)
(* (class ShortcutsPlugin): the persisted shortcuts.json, the in-memory    *)
(* list self.shortcuts, and the handlers the host calls by name.           *)
(*                                                                         *)
(* A Python dict is a sequence of <<key, value>> pairs with unique keys,   *)
(* in insertion order.  The text of a JSON object is a sequence of pairs   *)
(* too, but may repeat a key.  A Python value that self.shortcuts can hold *)
(* is [t |-> "list", items |-> <<dict, ...>>] or [t |-> "None", ...].      *)
(*                                                                         *)
(* self.logger comes from the FlowLauncher base class and pyperclip from   *)
(* the environment; neither is part of the repository.  A call of          *)
(* self.logger.error is recorded in logged and taken to return, and        *)
(* pyperclip.copy is recorded in calls.                                    *)
(***************************************************************************)
EXTENDS Integers, Sequences, FiniteSets, TLC

VARIABLES
    file,       \* content of shortcuts.json on disk
    running,    \* TRUE once ShortcutsPlugin() has been constructed
    shortcuts,  \* self.shortcuts
    op,         \* the handler that ran last: [name, arg]
    pre,        \* self.shortcuts and the file when that handler was entered
    ret,        \* what it returned: "None", "True", "False", "list"; "" if it raised
    results,    \* the result list it returned (query, show_shortcut_list)
    raised,     \* the exception that escaped it, or "none"
    calls,      \* the OS / clipboard calls it issued, in order
    logged,     \* TRUE when it called self.logger.error
    first_loaded, \* what load_shortcuts returned at the first start (RestartSpec)
    self_items, \* EditorWindow.items (EditorSpec)
    data_file,  \* content of the editor's data.json on disk (EditorSpec)
    edit        \* the editor handler that ran last, and what it found and did

vars == <<file, running, shortcuts, op, pre, ret, results, raised, calls, logged,
          first_loaded, self_items, data_file, edit>>

plugin_vars == <<file, running, shortcuts, op, pre, ret, results, raised, calls, logged>>

editor_vars == <<self_items, data_file, edit>>

-----------------------------------------------------------------------------
(* Bounds *)

MaxLen == 2

-----------------------------------------------------------------------------
(* Python dict and list values *)

Absent == "<absent>"

PyList(items) == [t |-> "list", items |-> items]
PyNone == [t |-> "None", items |-> <<>>]

Has(d, k) == \E i \in 1..Len(d) : d[i][1] = k

Item(d, k) == d[CHOOSE i \in 1..Len(d) : d[i][1] = k][2]

\* dict.get(k, default)
Get(d, k, default) == IF Has(d, k) THEN Item(d, k) ELSE default

\* d[k] = v : an existing key keeps its place, a new key goes last
SetItem(d, k, v) ==
    IF Has(d, k)
    THEN [i \in 1..Len(d) |-> IF d[i][1] = k THEN <<k, v>> ELSE d[i]]
    ELSE Append(d, <<k, v>>)

-----------------------------------------------------------------------------
(* The records the persisted file is drawn from, as JSON object texts *)

R1 == << <<"keyword", "a">>, <<"name", "n1">>, <<"category", "X">>, <<"priority", 1>> >>
R2 == << <<"keyword", "b">>, <<"name", "n2">>, <<"priority", 1>>, <<"type", "folder">>,
         <<"path", "%HOME%/d">>, <<"category", "X">>, <<"priority", 5>>,
         <<"openWith", "prog">> >>
R3 == << <<"keyword", "A">>, <<"name", "n3">>, <<"type", "url">>, <<"path", "http://u">>,
         <<"openWith", "prog">>, <<"category", "Y">>, <<"priority", 0>> >>
R4 == << <<"keyword", "a">>, <<"name", "n4">>, <<"type", "app">>, <<"path", "app.exe">>,
         <<"openWith", "prog">>, <<"category", "">> >>
R5 == << <<"keyword", "A">>, <<"name", "n5">>, <<"type", "file">>, <<"path", "%HOME%/f">>,
         <<"openWith", "prog">>, <<"category", "Y">>, <<"icon", "i5.png">> >>
R6 == << <<"keyword", "b">>, <<"type", "file">>, <<"path", "f6">>, <<"openWith", "">>,
         <<"priority", 1>>, <<"category", "X">> >>
R7 == << <<"name", "n7">>, <<"type", "app">>, <<"path", "p7">> >>
R8 == << <<"keyword", "b">>, <<"name", "n8">>, <<"type", "other">>, <<"path", "p8">> >>

RecordTexts == {R1, R2, R3, R4, R5, R6, R7, R8}

RECURSIVE SeqsUpTo(_, _)
SeqsUpTo(S, n) ==
    IF n = 0 THEN {<<>>}
    ELSE LET shorter == SeqsUpTo(S, n - 1)
         IN  shorter \cup {Append(s, x) : s \in {q \in shorter : Len(q) = n - 1}, x \in S}

\* A persisted file: [kind, members]; members is the text of the top-level
\* JSON object, a sequence of <<name, value>> with value a list (of object
\* texts) or null.
JsonList(texts) == [t |-> "list", items |-> texts]
JsonNull == [t |-> "null", items |-> <<>>]

ObjectFile(members) == [kind |-> "object", members |-> members]
OtherFile(kind) == [kind |-> kind, members |-> <<>>]

ShortcutsFile(texts) == ObjectFile(<< <<"shortcuts", JsonList(texts)>> >>)

InitialFiles ==
    {ShortcutsFile(texts) : texts \in SeqsUpTo(RecordTexts, MaxLen)}
    \cup {OtherFile(k) : k \in {"absent", "unreadable", "invalid", "array"}}
    \cup {ObjectFile(<<>>),
          ObjectFile(<< <<"shortcuts", JsonNull>> >>),
          ObjectFile(<< <<"version", JsonNull>>, <<"shortcuts", JsonList(<<R1, R3>>)>> >>),
          ObjectFile(<< <<"shortcuts", JsonList(<<R1>>)>>, <<"shortcuts", JsonList(<<R2>>)>> >>),
          ShortcutsFile(<<R1, R2, R3>>),
          ShortcutsFile(<<R1, R2, R4>>)}

-----------------------------------------------------------------------------
(* json.load and json.dump *)

\* A parser that keeps the first value of a repeated key.
RECURSIVE ParseKeepingFirst(_, _)
ParseKeepingFirst(d, pairs) ==
    IF pairs = <<>> THEN d
    ELSE ParseKeepingFirst(IF Has(d, Head(pairs)[1]) THEN d ELSE Append(d, Head(pairs)),
                           Tail(pairs))

\* A JSON object text parsed into a dict: pairs are stored in order, a
\* repeated key overwrites the value stored before.
RECURSIVE ParseObjectInto(_, _)
ParseObjectInto(d, pairs) ==
    IF pairs = <<>> THEN d
    ELSE ParseObjectInto(SetItem(d, Head(pairs)[1], Head(pairs)[2]), Tail(pairs))

ParseObject(pairs) == ParseObjectInto(<<>>, pairs)

ParseValue(v) ==
    IF v.t = "list"
    THEN PyList([i \in 1..Len(v.items) |-> ParseObject(v.items[i])])
    ELSE PyNone

\* json.load of the text of a top-level object
json_load(members) ==
    ParseObject([i \in 1..Len(members) |-> <<members[i][1], ParseValue(members[i][2])>>])

DumpValue(v) ==
    IF v.t = "list" THEN JsonList(v.items) ELSE JsonNull

\* json.dump({'shortcuts': self.shortcuts}, f, indent=2)
json_dump(sc) == ObjectFile(<< <<"shortcuts", DumpValue(sc)>> >>)

-----------------------------------------------------------------------------
(* load_shortcuts and save_shortcuts *)

load_shortcuts(f) ==
    CASE f.kind = "absent" -> [value |-> PyList(<<>>), logged |-> FALSE]
      [] f.kind = "object" ->
            [value |-> Get(json_load(f.members), "shortcuts", PyList(<<>>)),
             logged |-> FALSE]
      [] OTHER -> [value |-> PyList(<<>>), logged |-> TRUE]

SaveOutcomes == {"ok", "open_fails", "write_fails"}

\* open(..., 'w') may raise, leaving the file as it was; a write that raises
\* after the open has truncated the file leaves it without valid JSON
save_shortcuts(sc, f, outcome) ==
    CASE outcome = "ok" -> [file |-> json_dump(sc), logged |-> FALSE]
      [] outcome = "open_fails" -> [file |-> f, logged |-> TRUE]
      [] OTHER -> [file |-> OtherFile("invalid"), logged |-> TRUE]

-----------------------------------------------------------------------------
(* str.lower, str.strip, string comparison and os.path.expandvars on the   *)
(* strings of the model                                                    *)

lower(s) ==
    CASE s = "A" -> "a"
      [] s = "LIST" -> "list"
      [] OTHER -> s

strip(s) ==
    CASE s = " " -> ""
      [] OTHER -> s

\* The category names of the model in code point order, as str.__lt__ orders them.
CodePointOrder == <<"", "Uncategorized", "X", "Y">>

Rank(s) == CHOOSE i \in 1..Len(CodePointOrder) : CodePointOrder[i] = s

StrLess(a, b) == Rank(a) < Rank(b)

expandvars(p) ==
    CASE p = "%HOME%/d" -> "/home/u/d"
      [] p = "%HOME%/f" -> "/home/u/f"
      [] OTHER -> p

-----------------------------------------------------------------------------
(* What a handler does: the value it returns or the exception that        *)
(* escapes it, the calls it issued, and the registry and file it leaves.   *)

Outcome(r, res, exc, cs, lg, sc, f) ==
    [ret |-> r, results |-> res, raised |-> exc, calls |-> cs, logged |-> lg,
     shortcuts |-> sc, file |-> f]

Raises(exc, sc, f) == Outcome("", <<>>, exc, <<>>, FALSE, sc, f)

-----------------------------------------------------------------------------
(* format_shortcut_result *)

ShortcutResult(shortcut) ==
    [Title |-> Get(shortcut, "name", "Unnamed"),
     SubTitle |-> Get(shortcut, "path", ""),
     IcoPath |-> Get(shortcut, "icon", "Images/icon.png"),
     method |-> "execute_shortcut",
     parameters |-> <<Item(shortcut, "keyword")>>,
     ContextData |-> Item(shortcut, "keyword")]

\* shortcut['keyword'] raises KeyError when the record has no keyword
format_shortcut_result(shortcut) ==
    IF Has(shortcut, "keyword")
    THEN [raised |-> "none", result |-> <<ShortcutResult(shortcut)>>]
    ELSE [raised |-> "KeyError", result |-> <<>>]

\* [format_shortcut_result(s) for s in items], stopping at the first exception
RECURSIVE format_all(_)
format_all(items) ==
    IF items = <<>> THEN [raised |-> "none", result |-> <<>>]
    ELSE LET h == format_shortcut_result(Head(items))
             t == format_all(Tail(items))
         IN  IF h.raised # "none" THEN h
             ELSE IF t.raised # "none" THEN t
             ELSE [raised |-> "none", result |-> h.result \o t.result]

-----------------------------------------------------------------------------
(* show_shortcut_list *)

HeaderPrefix == "[folder] "

CategoryHeader(category, n) ==
    [Title |-> HeaderPrefix \o category,
     SubTitle |-> ToString(n) \o " shortcuts",
     IcoPath |-> "Images/folder.png",
     method |-> Absent,
     parameters |-> <<>>,
     ContextData |-> Absent]

category_of(shortcut) == Get(shortcut, "category", "Uncategorized")

\* categories[category].append(shortcut), creating the list on first use
RECURSIVE group_by_category(_, _)
group_by_category(categories, items) ==
    IF items = <<>> THEN categories
    ELSE LET c == category_of(Head(items))
             members == Get(categories, c, <<>>)
         IN  group_by_category(SetItem(categories, c, Append(members, Head(items))),
                               Tail(items))

\* sorted(categories.items()): a stable sort, ascending on the category name
RECURSIVE insert_category(_, _)
insert_category(sorted, x) ==
    IF sorted = <<>> THEN <<x>>
    ELSE IF StrLess(x[1], Head(sorted)[1]) THEN <<x>> \o sorted
    ELSE <<Head(sorted)>> \o insert_category(Tail(sorted), x)

RECURSIVE sorted_categories(_)
sorted_categories(categories) ==
    IF categories = <<>> THEN <<>>
    ELSE insert_category(sorted_categories(SubSeq(categories, 1, Len(categories) - 1)),
                         categories[Len(categories)])

priority_key(shortcut) == Get(shortcut, "priority", 0)

\* sorted(shortcuts, key=priority, reverse=True): stable, higher priority first
\* An insertion that puts a record before the records of equal priority.
RECURSIVE insert_before_equal(_, _)
insert_before_equal(sorted, x) ==
    IF sorted = <<>> THEN <<x>>
    ELSE IF priority_key(x) >= priority_key(Head(sorted)) THEN <<x>> \o sorted
    ELSE <<Head(sorted)>> \o insert_before_equal(Tail(sorted), x)

RECURSIVE insert_by_priority(_, _)
insert_by_priority(sorted, x) ==
    IF sorted = <<>> THEN <<x>>
    ELSE IF priority_key(x) > priority_key(Head(sorted)) THEN <<x>> \o sorted
    ELSE <<Head(sorted)>> \o insert_by_priority(Tail(sorted), x)

RECURSIVE sorted_by_priority(_)
sorted_by_priority(members) ==
    IF members = <<>> THEN <<>>
    ELSE insert_by_priority(sorted_by_priority(SubSeq(members, 1, Len(members) - 1)),
                            members[Len(members)])

\* the loop over the sorted groups: header, then the formatted members
RECURSIVE emit_groups(_)
emit_groups(groups) ==
    IF groups = <<>> THEN [raised |-> "none", result |-> <<>>]
    ELSE LET g == Head(groups)
             m == format_all(sorted_by_priority(g[2]))
             t == emit_groups(Tail(groups))
         IN  IF m.raised # "none" THEN m
             ELSE IF t.raised # "none" THEN t
             ELSE [raised |-> "none",
                   result |-> <<CategoryHeader(g[1], Len(g[2]))>> \o m.result \o t.result]

show_shortcut_list(sc, f) ==
    IF sc.t # "list" THEN Raises("TypeError", sc, f)
    ELSE LET out == emit_groups(sorted_categories(group_by_category(<<>>, sc.items)))
         IN  IF out.raised # "none" THEN Raises(out.raised, sc, f)
             ELSE Outcome("list", out.result, "none", <<>>, FALSE, sc, f)

-----------------------------------------------------------------------------
(* query *)

HelpEntry ==
    [Title |-> "Type a shortcut keyword",
     SubTitle |-> "Or type 'list' to see all shortcuts",
     IcoPath |-> "Images/icon.png",
     method |-> Absent,
     parameters |-> <<>>,
     ContextData |-> Absent]

\* A comparison that does not lowercase.
keyword_equals(text, shortcut) ==
    text = Get(shortcut, "keyword", "")

keyword_matches(text, shortcut) ==
    lower(text) = lower(Get(shortcut, "keyword", ""))

\* the search loop: every record whose lowercased keyword is the lowercased text
search_by_keyword(text, items) ==
    format_all(SelectSeq(items, LAMBDA s : keyword_matches(text, s)))

query(sc, f, text) ==
    IF lower(text) = "list" THEN show_shortcut_list(sc, f)
    ELSE IF strip(text) # ""
    THEN IF sc.t # "list" THEN Raises("TypeError", sc, f)
         ELSE LET out == search_by_keyword(text, sc.items)
              IN  IF out.raised # "none" THEN Raises(out.raised, sc, f)
                  ELSE Outcome("list", out.result, "none", <<>>, FALSE, sc, f)
    ELSE Outcome("list", <<HelpEntry>>, "none", <<>>, FALSE, sc, f)

-----------------------------------------------------------------------------
(* next((s for s in self.shortcuts if s['keyword'] == keyword), None) *)

NotFound == [status |-> "none", shortcut |-> <<>>]

\* A scan that keeps the last record with the keyword instead of the first.
RECURSIVE last_match(_, _)
last_match(items, keyword) ==
    IF items = <<>> THEN NotFound
    ELSE IF ~Has(Head(items), "keyword") THEN [status |-> "KeyError", shortcut |-> <<>>]
    ELSE LET t == last_match(Tail(items), keyword)
         IN  IF t.status # "none" THEN t
             ELSE IF Item(Head(items), "keyword") = keyword
                  THEN [status |-> "found", shortcut |-> Head(items)]
             ELSE NotFound

RECURSIVE first_match(_, _)
first_match(items, keyword) ==
    IF items = <<>> THEN NotFound
    ELSE IF ~Has(Head(items), "keyword") THEN [status |-> "KeyError", shortcut |-> <<>>]
    ELSE IF Item(Head(items), "keyword") = keyword
         THEN [status |-> "found", shortcut |-> Head(items)]
    ELSE first_match(Tail(items), keyword)

-----------------------------------------------------------------------------
(* execute_shortcut *)

\* argv: the arguments passed; cmdline: TRUE when Popen is given one command
\* string (explorer "path", or the path alone) instead of an argument list
Call(fn, argv, cmdline) == [fn |-> fn, argv |-> argv, cmdline |-> cmdline]

\* A dispatch that tests only for folder and file and launches everything else.
launch_url_as_app(shortcut, path) ==
    LET shortcut_type == Get(shortcut, "type", "file")
        open_with == Get(shortcut, "openWith", "")
    IN  CASE shortcut_type = "folder" ->
                <<Call("subprocess.Popen", <<"explorer", path>>, TRUE)>>
          [] shortcut_type = "file" ->
                IF open_with # ""
                THEN <<Call("subprocess.Popen", <<open_with, path>>, FALSE)>>
                ELSE <<Call("os.startfile", <<path>>, FALSE)>>
          [] OTHER -> <<Call("subprocess.Popen", <<path>>, TRUE)>>

\* A dispatch that starts the openWith program for a record of any type.
launch_open_with_first(shortcut, path) ==
    LET shortcut_type == Get(shortcut, "type", "file")
        open_with == Get(shortcut, "openWith", "")
    IN  CASE shortcut_type \in {"url", "folder", "file", "app"} /\ open_with # "" ->
                <<Call("subprocess.Popen", <<open_with, path>>, FALSE)>>
          [] shortcut_type \in {"url", "file"} /\ open_with = "" ->
                <<Call("os.startfile", <<path>>, FALSE)>>
          [] shortcut_type = "folder" /\ open_with = "" ->
                <<Call("subprocess.Popen", <<"explorer", path>>, TRUE)>>
          [] shortcut_type = "app" /\ open_with = "" ->
                <<Call("subprocess.Popen", <<path>>, TRUE)>>
          [] OTHER -> <<>>

\* the branch on shortcut_type: the call it makes, if any
launch(shortcut, path) ==
    LET shortcut_type == Get(shortcut, "type", "file")
        \* shortcut.get('openWith') is None when absent; None and "" are both falsy
        open_with == Get(shortcut, "openWith", "")
    IN  CASE shortcut_type = "url" -> <<Call("os.startfile", <<path>>, FALSE)>>
          [] shortcut_type = "folder" ->
                <<Call("subprocess.Popen", <<"explorer", path>>, TRUE)>>
          [] shortcut_type = "file" ->
                IF open_with # ""
                THEN <<Call("subprocess.Popen", <<open_with, path>>, FALSE)>>
                ELSE <<Call("os.startfile", <<path>>, FALSE)>>
          [] shortcut_type = "app" -> <<Call("subprocess.Popen", <<path>>, TRUE)>>
          [] OTHER -> <<>>

\* An execute whose lookup falls back to the first record when nothing matches.
execute_first_when_missing(sc, f, keyword, launched) ==
    IF sc.t # "list" THEN Raises("TypeError", sc, f)
    ELSE LET m == first_match(sc.items, keyword)
         IN  CASE m.status = "KeyError" -> Raises("KeyError", sc, f)
               [] m.status = "none" /\ sc.items = <<>> ->
                    Outcome("False", <<>>, "none", <<>>, FALSE, sc, f)
               [] OTHER ->
                    LET shortcut == IF m.status = "none" THEN sc.items[1] ELSE m.shortcut
                        path == expandvars(Get(shortcut, "path", ""))
                        cs == launch(shortcut, path)
                    IN  IF cs = <<>> \/ launched
                        THEN Outcome("True", <<>>, "none", cs, FALSE, sc, f)
                        ELSE Outcome("False", <<>>, "none", cs, TRUE, sc, f)

\* launched: whether the OS call, if one is made, completes without raising
execute_shortcut(sc, f, keyword, launched) ==
    IF sc.t # "list" THEN Raises("TypeError", sc, f)
    ELSE LET m == first_match(sc.items, keyword)
         IN  CASE m.status = "KeyError" -> Raises("KeyError", sc, f)
               [] m.status = "none" -> Outcome("False", <<>>, "none", <<>>, FALSE, sc, f)
               [] OTHER ->
                    LET path == expandvars(Get(m.shortcut, "path", ""))
                        cs == launch(m.shortcut, path)
                    IN  IF cs = <<>> \/ launched
                        THEN Outcome("True", <<>>, "none", cs, FALSE, sc, f)
                        ELSE Outcome("False", <<>>, "none", cs, TRUE, sc, f)

-----------------------------------------------------------------------------
(* copy_path *)

\* A copy that also moves the record it found to the front of the list.
copy_path_promoting(sc, f, keyword) ==
    IF sc.t # "list" THEN Raises("TypeError", sc, f)
    ELSE LET m == first_match(sc.items, keyword)
         IN  CASE m.status = "KeyError" -> Raises("KeyError", sc, f)
               [] m.status = "none" -> Outcome("None", <<>>, "none", <<>>, FALSE, sc, f)
               [] OTHER ->
                    Outcome("None", <<>>, "none",
                            <<Call("pyperclip.copy", <<Get(m.shortcut, "path", "")>>, FALSE)>>,
                            FALSE,
                            PyList(<<m.shortcut>> \o
                                   SelectSeq(sc.items, LAMBDA s : s # m.shortcut)),
                            f)

copy_path(sc, f, keyword) ==
    IF sc.t # "list" THEN Raises("TypeError", sc, f)
    ELSE LET m == first_match(sc.items, keyword)
         IN  CASE m.status = "KeyError" -> Raises("KeyError", sc, f)
               [] m.status = "none" -> Outcome("None", <<>>, "none", <<>>, FALSE, sc, f)
               [] OTHER ->
                    Outcome("None", <<>>, "none",
                            <<Call("pyperclip.copy", <<Get(m.shortcut, "path", "")>>, FALSE)>>,
                            FALSE, sc, f)

-----------------------------------------------------------------------------
(* delete_shortcut *)

\* A filter that drops only the first record with the keyword.
RECURSIVE without_first(_, _)
without_first(items, keyword) ==
    IF items = <<>> THEN [raised |-> "none", items |-> <<>>]
    ELSE IF \E i \in 1..Len(items) : ~Has(items[i], "keyword")
         THEN [raised |-> "KeyError", items |-> <<>>]
    ELSE IF Item(Head(items), "keyword") = keyword
         THEN [raised |-> "none", items |-> Tail(items)]
    ELSE [raised |-> "none",
          items |-> <<Head(items)>> \o without_first(Tail(items), keyword).items]

\* [s for s in self.shortcuts if s['keyword'] != keyword]
RECURSIVE without_keyword(_, _)
without_keyword(items, keyword) ==
    IF items = <<>> THEN [raised |-> "none", items |-> <<>>]
    ELSE IF ~Has(Head(items), "keyword") THEN [raised |-> "KeyError", items |-> <<>>]
    ELSE LET t == without_keyword(Tail(items), keyword)
         IN  IF t.raised # "none" THEN t
             ELSE IF Item(Head(items), "keyword") # keyword
                  THEN [raised |-> "none", items |-> <<Head(items)>> \o t.items]
             ELSE t

\* A delete that writes the file before it filters the list.
delete_saving_first(sc, f, keyword, outcome) ==
    IF sc.t # "list" THEN Raises("TypeError", sc, f)
    ELSE LET kept == without_keyword(sc.items, keyword)
         IN  IF kept.raised # "none" THEN Raises(kept.raised, sc, f)
             ELSE LET saved == save_shortcuts(sc, f, outcome)
                  IN  Outcome("None", <<>>, "none", <<>>, saved.logged,
                              PyList(kept.items), saved.file)

\* A delete that restores the old list when the save fails.
delete_with_rollback(sc, f, keyword, outcome) ==
    IF sc.t # "list" THEN Raises("TypeError", sc, f)
    ELSE LET kept == without_keyword(sc.items, keyword)
         IN  IF kept.raised # "none" THEN Raises(kept.raised, sc, f)
             ELSE LET saved == save_shortcuts(PyList(kept.items), f, outcome)
                  IN  Outcome("None", <<>>, "none", <<>>, saved.logged,
                              IF saved.logged THEN sc ELSE PyList(kept.items),
                              saved.file)

delete_shortcut(sc, f, keyword, outcome) ==
    IF sc.t # "list" THEN Raises("TypeError", sc, f)
    ELSE LET kept == without_keyword(sc.items, keyword)
         IN  IF kept.raised # "none" THEN Raises(kept.raised, sc, f)
             ELSE LET saved == save_shortcuts(PyList(kept.items), f, outcome)
                  IN  Outcome("None", <<>>, "none", <<>>, saved.logged,
                              PyList(kept.items), saved.file)

-----------------------------------------------------------------------------
(* The plugin's life: construction and exit of the host process *)

NoOp == [name |-> "", arg |-> ""]

NotLoaded == [set |-> FALSE, value |-> PyList(<<>>)]

\* edit: name of the editor handler, the table's current row, whether its
\* dialog was accepted, the form data it read, how its save_data call went
\* ("none": not called), and self.items and the data file when it was entered
NoEdit == [name |-> "", row |-> -1, accepted |-> FALSE, data |-> <<>>, save |-> "none",
           items |-> <<>>, file |-> OtherFile("absent"), raised |-> "none"]

\* The editor is not running.
EditorIdle ==
    /\ self_items = <<>>
    /\ data_file = OtherFile("absent")
    /\ edit = NoEdit

Init ==
    /\ first_loaded = NotLoaded
    /\ EditorIdle
    /\ file \in InitialFiles
    /\ running = FALSE
    /\ shortcuts = PyList(<<>>)
    /\ op = NoOp
    /\ pre = [shortcuts |-> PyList(<<>>), file |-> file]
    /\ ret = "None"
    /\ results = <<>>
    /\ raised = "none"
    /\ calls = <<>>
    /\ logged = FALSE

\* ShortcutsPlugin.__init__
Construct ==
    /\ ~running
    /\ running' = TRUE
    /\ shortcuts' = load_shortcuts(file).value
    /\ logged' = load_shortcuts(file).logged
    /\ op' = [name |-> "__init__", arg |-> ""]
    /\ pre' = [shortcuts |-> shortcuts, file |-> file]
    /\ ret' = "None"
    /\ results' = <<>>
    /\ raised' = "none"
    /\ calls' = <<>>
    /\ UNCHANGED <<file, first_loaded, editor_vars>>

\* The host process exits: the in-memory list is discarded.
Exit ==
    /\ running
    /\ running' = FALSE
    /\ shortcuts' = PyList(<<>>)
    /\ op' = NoOp
    /\ pre' = [shortcuts |-> PyList(<<>>), file |-> file]
    /\ ret' = "None"
    /\ results' = <<>>
    /\ raised' = "none"
    /\ calls' = <<>>
    /\ logged' = FALSE
    /\ UNCHANGED <<file, first_loaded, editor_vars>>

\* The host calls a handler of the running plugin; o is what the handler does.
Handle(name, arg, o) ==
    /\ running
    /\ op' = [name |-> name, arg |-> arg]
    /\ pre' = [shortcuts |-> shortcuts, file |-> file]
    /\ ret' = o.ret
    /\ results' = o.results
    /\ raised' = o.raised
    /\ calls' = o.calls
    /\ logged' = o.logged
    /\ shortcuts' = o.shortcuts
    /\ file' = o.file
    /\ UNCHANGED <<running, first_loaded, editor_vars>>

Texts == {"", " ", "a", "A", "list", "LIST", "zz"}

Keywords == {"a", "A", "b", "zz"}

Query == \E text \in Texts : Handle("query", text, query(shortcuts, file, text))

ShowShortcutList == Handle("show_shortcut_list", "", show_shortcut_list(shortcuts, file))

ExecuteShortcut ==
    \E keyword \in Keywords, launched \in BOOLEAN :
        Handle("execute_shortcut", keyword,
               execute_shortcut(shortcuts, file, keyword, launched))

CopyPath == \E keyword \in Keywords : Handle("copy_path", keyword, copy_path(shortcuts, file, keyword))

DeleteShortcut ==
    \E keyword \in Keywords, outcome \in SaveOutcomes :
        Handle("delete_shortcut", keyword,
               delete_shortcut(shortcuts, file, keyword, outcome))

SaveShortcuts ==
    \E outcome \in SaveOutcomes :
        LET saved == save_shortcuts(shortcuts, file, outcome)
        IN  Handle("save_shortcuts", "",
                   Outcome("None", <<>>, "none", <<>>, saved.logged, shortcuts, saved.file))

Next ==
    \/ Construct
    \/ Exit
    \/ Query
    \/ ShowShortcutList
    \/ ExecuteShortcut
    \/ CopyPath
    \/ DeleteShortcut
    \/ SaveShortcuts

Spec == Init /\ [][Next]_vars

-----------------------------------------------------------------------------
(* The plugin across restarts, without calls of save_shortcuts from outside *)

\* ShortcutsPlugin.__init__; the first one of the installation records what
\* load_shortcuts returned
Start ==
    /\ ~running
    /\ running' = TRUE
    /\ shortcuts' = load_shortcuts(file).value
    /\ logged' = load_shortcuts(file).logged
    /\ first_loaded' = IF first_loaded.set THEN first_loaded
                       ELSE [set |-> TRUE, value |-> load_shortcuts(file).value]
    /\ op' = [name |-> "__init__", arg |-> ""]
    /\ pre' = [shortcuts |-> shortcuts, file |-> file]
    /\ ret' = "None"
    /\ results' = <<>>
    /\ raised' = "none"
    /\ calls' = <<>>
    /\ UNCHANGED <<file, editor_vars>>

\* the registries the restarts are followed from
RestartFiles ==
    {ShortcutsFile(texts) : texts \in SeqsUpTo({R1, R2, R4, R7}, MaxLen)}
    \cup {OtherFile("absent"), OtherFile("invalid"),
          ObjectFile(<< <<"shortcuts", JsonNull>> >>)}

RestartInit == Init /\ file \in RestartFiles

RestartNext ==
    \/ Start
    \/ Exit
    \/ Query
    \/ ShowShortcutList
    \/ ExecuteShortcut
    \/ CopyPath
    \/ DeleteShortcut

RestartSpec == RestartInit /\ [][RestartNext]_vars

-----------------------------------------------------------------------------
(* The editor window: EditorWindow and ItemDialog of the PySide6 template  *)

MaxItems == 2

\* ItemDialog.get_data(): the six fields of the form
get_data(name) ==
    << <<"name", name>>, <<"type", "file">>, <<"path", "p">>, <<"category", "">>,
       <<"priority", 100>>, <<"icon", "">> >>

\* what the user may have typed when the dialog is accepted
Forms == {get_data(name) : name \in {"n1", "n9"}}

ItemTexts == {R1}

ItemsFile(texts) == ObjectFile(<< <<"items", JsonList(texts)>> >>)

EditorFiles ==
    {ItemsFile(texts) : texts \in SeqsUpTo(ItemTexts, MaxItems)}
    \cup {OtherFile("absent"), OtherFile("invalid"), ObjectFile(<<>>),
          ObjectFile(<< <<"items", JsonNull>> >>)}

\* load_data up to refresh_table: self.items and whether the warning was shown
load_data(f) ==
    CASE f.kind = "absent" -> [value |-> PyList(<<>>), shown |-> FALSE]
      [] f.kind = "object" ->
            [value |-> Get(json_load(f.members), "items", PyList(<<>>)), shown |-> FALSE]
      [] OTHER -> [value |-> PyList(<<>>), shown |-> TRUE]

\* save_data: os.makedirs or open may raise, leaving the file as it was; a
\* json.dump that raises leaves the truncated file; every exception is caught
save_data(items, f, outcome) ==
    CASE outcome = "ok" -> ItemsFile(items)
      [] outcome = "open_fails" -> f
      [] OTHER -> OtherFile("invalid")

\* what a handler that did not reach its mutation leaves
Untouched(items, f) == [items |-> items, file |-> f, save |-> "none"]

add_item(items, f, accepted, data, outcome) ==
    IF ~accepted THEN Untouched(items, f)
    ELSE LET added == Append(items, data)
         IN  [items |-> added, file |-> save_data(added, f, outcome), save |-> outcome]

\* An edit that inserts the form data before the row instead of replacing it.
edit_item_inserting(items, f, row, accepted, data, outcome) ==
    IF row < 0 \/ ~accepted THEN Untouched(items, f)
    ELSE LET edited == SubSeq(items, 1, row) \o <<data>> \o SubSeq(items, row + 1, Len(items))
         IN  [items |-> edited, file |-> save_data(edited, f, outcome), save |-> outcome]

\* row is table.currentRow(): -1 when nothing is selected, else a 0-based index
edit_item(items, f, row, accepted, data, outcome) ==
    IF row < 0 \/ ~accepted THEN Untouched(items, f)
    ELSE LET edited == [items EXCEPT ![row + 1] = data]
         IN  [items |-> edited, file |-> save_data(edited, f, outcome), save |-> outcome]

delete_item(items, f, row, yes, outcome) ==
    IF row < 0 \/ ~yes THEN Untouched(items, f)
    ELSE LET left == SubSeq(items, 1, row) \o SubSeq(items, row + 2, Len(items))
         IN  [items |-> left, file |-> save_data(left, f, outcome), save |-> outcome]

\* there: what is at the chosen path before the save
change_save_location(items, f, chosen, there, outcome) ==
    IF ~chosen THEN Untouched(items, f)
    ELSE [items |-> items, file |-> save_data(items, there, outcome), save |-> outcome]

\* The plugin is not running and its file does not exist.
PluginIdle ==
    /\ file = OtherFile("absent")
    /\ running = FALSE
    /\ shortcuts = PyList(<<>>)
    /\ op = NoOp
    /\ pre = [shortcuts |-> PyList(<<>>), file |-> file]
    /\ ret = "None"
    /\ results = <<>>
    /\ raised = "none"
    /\ calls = <<>>
    /\ logged = FALSE

EditorInit ==
    /\ PluginIdle
    /\ first_loaded = NotLoaded
    /\ data_file \in EditorFiles
    /\ self_items = <<>>
    /\ edit = NoEdit

EditorOpen == edit.name # "" /\ edit.raised = "none"

\* EditorWindow.__init__: load_data, then refresh_table, which raises
\* TypeError on len(self.items) when the file's items value is null
EditorConstruct ==
    /\ edit.name = ""
    /\ LET loaded == load_data(data_file).value
       IN  /\ self_items' = loaded.items
           /\ edit' = [NoEdit EXCEPT !.name = "__init__", !.file = data_file,
                                     !.raised = IF loaded.t = "list" THEN "none"
                                                ELSE "TypeError"]
    /\ UNCHANGED <<data_file, plugin_vars, first_loaded>>

\* The window is closed, or the process that failed to construct it ends.
EditorClose ==
    /\ edit.name # ""
    /\ self_items' = <<>>
    /\ edit' = NoEdit
    /\ UNCHANGED <<data_file, plugin_vars, first_loaded>>

\* A button or menu handler of the open window; o is what it does.
EditorHandle(name, row, accepted, data, o) ==
    /\ EditorOpen
    /\ edit' = [name |-> name, row |-> row, accepted |-> accepted,
                data |-> IF accepted THEN data ELSE <<>>, save |-> o.save,
                items |-> self_items, file |-> data_file, raised |-> "none"]
    /\ self_items' = o.items
    /\ data_file' = o.file
    /\ UNCHANGED <<plugin_vars, first_loaded>>

AddItem ==
    /\ Len(self_items) < MaxItems
    /\ \E accepted \in BOOLEAN, data \in Forms, outcome \in SaveOutcomes :
            EditorHandle("add_item", -1, accepted, data,
                         add_item(self_items, data_file, accepted, data, outcome))

\* the dialog is shown, and can be accepted, only when a row is selected
EditItem ==
    \E row \in -1..(Len(self_items) - 1), accepted \in BOOLEAN, data \in Forms,
       outcome \in SaveOutcomes :
        EditorHandle("edit_item", row, accepted /\ row >= 0, data,
                     edit_item(self_items, data_file, row, accepted, data, outcome))

DeleteItem ==
    \E row \in -1..(Len(self_items) - 1), yes \in BOOLEAN, outcome \in SaveOutcomes :
        EditorHandle("delete_item", row, yes /\ row >= 0, <<>>,
                     delete_item(self_items, data_file, row, yes, outcome))

ChangeSaveLocation ==
    \E chosen \in BOOLEAN, there \in {OtherFile("absent"), ItemsFile(<<R1>>)},
       outcome \in SaveOutcomes :
        EditorHandle("change_save_location", -1, chosen, <<>>,
                     change_save_location(self_items, data_file, chosen, there, outcome))

EditorNext ==
    \/ EditorConstruct
    \/ EditorClose
    \/ AddItem
    \/ EditItem
    \/ DeleteItem
    \/ ChangeSaveLocation

EditorSpec == EditorInit /\ [][EditorNext]_vars

-----------------------------------------------------------------------------
(* Vocabulary of the properties *)

\* A registry of the data model: a list whose records all have a keyword.
IsRegistry(sc) ==
    /\ sc.t = "list"
    /\ \A i \in 1..Len(sc.items) : Has(sc.items[i], "keyword")

KeywordAt(sc, i) == Item(sc.items[i], "keyword")

Carries(sc, k) == \E i \in 1..Len(sc.items) : KeywordAt(sc, i) = k

FirstWith(sc, k) ==
    sc.items[CHOOSE i \in 1..Len(sc.items) :
                /\ KeywordAt(sc, i) = k
                /\ \A j \in 1..(i - 1) : KeywordAt(sc, j) # k]

KnownTypes == {"url", "folder", "file", "app"}

TypeOf(r) == Get(r, "type", "file")

LastArg(call) == call.argv[Len(call.argv)]

\* The four OS verbs of the specification, read off a call.
Verb(call) ==
    CASE call.fn = "os.startfile" -> "open with default handler"
      [] call.fn = "subprocess.Popen" /\ ~call.cmdline -> "launch process with args"
      [] call.fn = "subprocess.Popen" /\ call.cmdline /\ call.argv[1] = "explorer"
            /\ Len(call.argv) = 2 -> "open in file manager"
      [] call.fn = "subprocess.Popen" /\ call.cmdline -> "launch executable"
      [] OTHER -> "none"

-----------------------------------------------------------------------------
\* C1: execute_shortcut and copy_path act on the first record, in sequence
\* order, whose keyword equals the argument exactly (case-sensitive), also
\* when several records share it; when no record has the keyword, also in the
\* empty registry, execute_shortcut returns False, copy_path does nothing, and
\* no exception is raised.
C1_ResolvesFirstMatch ==
    (op.name \in {"execute_shortcut", "copy_path"} /\ IsRegistry(pre.shortcuts)) =>
        /\ raised = "none"
        /\ IF Carries(pre.shortcuts, op.arg)
           THEN LET r == FirstWith(pre.shortcuts, op.arg)
                IN  /\ op.name = "copy_path" =>
                            /\ Len(calls) = 1
                            /\ calls[1].fn = "pyperclip.copy"
                            /\ calls[1].argv = <<Get(r, "path", "")>>
                    /\ op.name = "execute_shortcut" =>
                            /\ ret \in {"True", "False"}
                            /\ TypeOf(r) \in KnownTypes => Len(calls) = 1
                            /\ \A i \in 1..Len(calls) :
                                    LastArg(calls[i]) = expandvars(Get(r, "path", ""))
           ELSE /\ calls = <<>>
                /\ ret = IF op.name = "execute_shortcut" THEN "False" ELSE "None"

\* Two records share the keyword, differ in path, and the handler acted.
C1_Witness ==
    /\ op.name \in {"execute_shortcut", "copy_path"}
    /\ IsRegistry(pre.shortcuts)
    /\ Len(pre.shortcuts.items) = 2
    /\ KeywordAt(pre.shortcuts, 1) = op.arg
    /\ KeywordAt(pre.shortcuts, 2) = op.arg
    /\ Get(pre.shortcuts.items[1], "path", "") # Get(pre.shortcuts.items[2], "path", "")
    /\ Len(calls) = 1

-----------------------------------------------------------------------------
\* C2: show_shortcut_list emits the category groups in ascending order of
\* category name and, within a group, the shortcuts in non-increasing
\* priority (a missing priority counts as 0), records of equal priority in
\* their order in the registry; every record is listed once.

IsHeader(e) == e.method = Absent

HeaderCategory(e) ==
    CHOOSE c \in {CodePointOrder[i] : i \in 1..Len(CodePointOrder)} :
        e.Title = HeaderPrefix \o c

PriorityOrZero(r) == IF Has(r, "priority") THEN Item(r, "priority") ELSE 0

\* out lists the records of items, under headers, in the order of the claim
ListedInOrder(items, out) ==
    LET H == {i \in 1..Len(out) : IsHeader(out[i])}
        M == (1..Len(out)) \ H
    IN  /\ \A h1, h2 \in H : h1 < h2 => StrLess(HeaderCategory(out[h1]), HeaderCategory(out[h2]))
        /\ out # <<>> => 1 \in H
        /\ \A h \in H : h + 1 \in M
        /\ \E p \in [M -> 1..Len(items)] :
            /\ \A i, j \in M : p[i] = p[j] => i = j
            /\ {p[i] : i \in M} = 1..Len(items)
            /\ \A i \in M : out[i] = ShortcutResult(items[p[i]])
            /\ \A i \in M : (i + 1) \in M =>
                    LET a == PriorityOrZero(items[p[i]])
                        b == PriorityOrZero(items[p[i + 1]])
                    IN  a > b \/ (a = b /\ p[i] < p[i + 1])

-----------------------------------------------------------------------------
\* C3: in show_shortcut_list every record whose category is missing or is
\* the empty string is placed in the group "Uncategorized"; no group with an
\* empty category name is emitted.
C3_NoEmptyGroupName ==
    (op.name = "show_shortcut_list" /\ IsRegistry(pre.shortcuts) /\ raised = "none") =>
        \A i \in 1..Len(results) :
            IsHeader(results[i]) => results[i].Title # HeaderPrefix \o ""

-----------------------------------------------------------------------------
\* C4: execute_shortcut on a found record whose type is url, folder, file or
\* app (a missing type counts as file) issues exactly one OS call, the verb
\* selected by the type: url -> default handler, folder -> file manager,
\* file -> launch with args or default handler, app -> launch executable; a
\* url record never reaches the file manager or a direct launch.
C4_OneVerbByType ==
    (/\ op.name = "execute_shortcut"
     /\ IsRegistry(pre.shortcuts)
     /\ Carries(pre.shortcuts, op.arg)
     /\ TypeOf(FirstWith(pre.shortcuts, op.arg)) \in KnownTypes) =>
        LET type == TypeOf(FirstWith(pre.shortcuts, op.arg))
        IN  /\ Len(calls) = 1
            /\ type = "url" => Verb(calls[1]) = "open with default handler"
            /\ type = "folder" => Verb(calls[1]) = "open in file manager"
            /\ type = "file" =>
                    Verb(calls[1]) \in {"launch process with args", "open with default handler"}
            /\ type = "app" => Verb(calls[1]) = "launch executable"

\* A url record was executed.
C4_Witness ==
    /\ op.name = "execute_shortcut"
    /\ IsRegistry(pre.shortcuts)
    /\ Carries(pre.shortcuts, op.arg)
    /\ TypeOf(FirstWith(pre.shortcuts, op.arg)) = "url"
    /\ Len(calls) = 1
    /\ ret = "True"

-----------------------------------------------------------------------------
\* C5: delete_shortcut(k) removes every record whose keyword is k, keeps all
\* others, unmodified and in their order, and an execute_shortcut(k) that
\* follows reports 'not found'.
DeleteRemovesAll ==
    (op.name = "delete_shortcut" /\ IsRegistry(pre.shortcuts)) =>
        /\ raised = "none"
        /\ shortcuts = PyList(SelectSeq(pre.shortcuts.items,
                                        LAMBDA s : Item(s, "keyword") # op.arg))

ExecuteAfterDelete ==
    (/\ op.name = "delete_shortcut"
     /\ raised = "none"
     /\ op'.name = "execute_shortcut"
     /\ op'.arg = op.arg) =>
        /\ ret' = "False"
        /\ raised' = "none"
        /\ calls' = <<>>

\* C5: both halves, the removal in every state after delete_shortcut and the
\* 'not found' on every step that executes the deleted keyword next.
C5_DeleteAll == [](DeleteRemovesAll) /\ [][ExecuteAfterDelete]_vars

\* Two records with the keyword were removed and the record between them was kept.
C5_Witness ==
    /\ op.name = "delete_shortcut"
    /\ op.arg = "a"
    /\ pre.shortcuts = PyList(<<ParseObject(R1), ParseObject(R2), ParseObject(R4)>>)
    /\ shortcuts = PyList(<<ParseObject(R2)>>)

-----------------------------------------------------------------------------
\* C6: for any registry, the empty one included, and any keyword no record
\* carries, execute_shortcut returns False, issues no OS call, does not
\* write the file and leaves the in-memory registry unchanged.
C6_NotFoundIsInert ==
    (/\ op.name = "execute_shortcut"
     /\ IsRegistry(pre.shortcuts)
     /\ ~Carries(pre.shortcuts, op.arg)) =>
        /\ ret = "False"
        /\ raised = "none"
        /\ calls = <<>>
        /\ file = pre.file
        /\ shortcuts = pre.shortcuts

\* A keyword was looked up in a non-empty registry that does not carry it.
C6_Witness ==
    /\ op.name = "execute_shortcut"
    /\ IsRegistry(pre.shortcuts)
    /\ pre.shortcuts.items # <<>>
    /\ ~Carries(pre.shortcuts, op.arg)
    /\ ret = "False"

-----------------------------------------------------------------------------
\* C7: load_shortcuts at construction never propagates a fault; for a file
\* that is absent, unreadable, not valid JSON or not a JSON object the
\* registry is the empty sequence; in every case the value it returns is a
\* sequence of records, never null.
C7_LoadYieldsSequence ==
    op.name = "__init__" =>
        /\ raised = "none"
        /\ shortcuts.t = "list"
        /\ pre.file.kind # "object" => shortcuts = PyList(<<>>)

-----------------------------------------------------------------------------
\* C8: for a well-formed persisted file, load_shortcuts followed by
\* save_shortcuts with no mutation in between writes a file whose shortcuts
\* sequence has the same records, with the same field values, in the same
\* order, and loading that file again yields the same registry.

WellFormedFile(f) ==
    /\ f.kind = "object"
    /\ Len(f.members) = 1
    /\ f.members[1][1] = "shortcuts"
    /\ f.members[1][2].t = "list"

TextKeys(text) == {text[i][1] : i \in 1..Len(text)}

\* the value a JSON object text gives a field: that of its last occurrence
TextValue(text, k) ==
    text[CHOOSE i \in 1..Len(text) :
            text[i][1] = k /\ \A j \in (i + 1)..Len(text) : text[j][1] # k][2]

SameRecord(t1, t2) ==
    /\ TextKeys(t1) = TextKeys(t2)
    /\ \A k \in TextKeys(t1) : TextValue(t1, k) = TextValue(t2, k)

SameShortcuts(f1, f2) ==
    /\ WellFormedFile(f1)
    /\ WellFormedFile(f2)
    /\ LET a == f1.members[1][2].items
           b == f2.members[1][2].items
       IN  /\ Len(a) = Len(b)
           /\ \A i \in 1..Len(a) : SameRecord(a[i], b[i])

\* C8: a successful save of what was loaded from a well-formed file writes
\* the same shortcuts, and loading the written file gives the same registry.
C8_RoundTrip ==
    (/\ op.name = "save_shortcuts"
     /\ ~logged
     /\ WellFormedFile(pre.file)
     /\ pre.shortcuts = load_shortcuts(pre.file).value) =>
        /\ SameShortcuts(file, pre.file)
        /\ load_shortcuts(file).value = pre.shortcuts
        /\ shortcuts = pre.shortcuts

\* A loaded file with a repeated field was written back: the text changed.
C8_Witness ==
    /\ op.name = "save_shortcuts"
    /\ ~logged
    /\ WellFormedFile(pre.file)
    /\ pre.file.members[1][2].items = <<R2, R1>>
    /\ pre.shortcuts = load_shortcuts(pre.file).value
    /\ file # pre.file

-----------------------------------------------------------------------------
\* C9: query dispatches three ways: text equal to "list" ignoring case
\* returns the show_shortcut_list output; empty text returns one static help
\* entry without action; any other non-empty text returns results for the
\* records whose lowercased keyword equals the lowercased text, in registry
\* order, and nothing when none matches.

MatchingResults(items, text) ==
    LET m == SelectSeq(items, LAMBDA s : Has(s, "keyword") /\ lower(Item(s, "keyword")) = lower(text))
    IN  [i \in 1..Len(m) |-> ShortcutResult(m[i])]

IsHelp(res) ==
    /\ Len(res) = 1
    /\ res[1].method = Absent
    /\ res[1].Title = "Type a shortcut keyword"

\* blank: the texts that get the help entry
QueryDispatch(blank) ==
    (op.name = "query" /\ pre.shortcuts.t = "list") =>
        CASE lower(op.arg) = "list" ->
                /\ raised = show_shortcut_list(pre.shortcuts, pre.file).raised
                /\ results = show_shortcut_list(pre.shortcuts, pre.file).results
          [] op.arg \in blank -> raised = "none" /\ IsHelp(results)
          [] OTHER ->
                /\ raised = "none"
                /\ results = MatchingResults(pre.shortcuts.items, op.arg)

\* C9 as stated: only the empty text gets the help entry, every other text
\* that is not "list" is searched as a keyword.
C9_QueryHelpOnlyWhenEmpty == QueryDispatch({""})

\* C9 amended: text that is empty or only whitespace gets the help entry,
\* "list" in any case gets the listing, every other text is searched.
C9_QueryDispatch == QueryDispatch({t \in Texts : strip(t) = ""})

\* Whitespace alone was answered with the help entry.
C9_WitnessBlank ==
    /\ op.name = "query"
    /\ op.arg = " "
    /\ pre.shortcuts.items # <<>>
    /\ IsHelp(results)

-----------------------------------------------------------------------------
\* C10: for every registry loaded from a persisted JSON file, also one with
\* malformed records or a shortcuts value that is not a list, query,
\* show_shortcut_list, execute_shortcut, copy_path and delete_shortcut
\* return normally and let no exception escape.
C10_NoExceptionEscapes ==
    op.name \in {"query", "show_shortcut_list", "execute_shortcut", "copy_path",
                 "delete_shortcut"} => raised = "none"

-----------------------------------------------------------------------------
\* C11: when every save succeeds, at each point where control is back with
\* the caller the file's shortcuts are the in-memory registry, so a fresh
\* load there yields the registry as it stood after the last mutation.

\* what a restart would load is what is in memory
Persisted == load_shortcuts(file).value = shortcuts

SaveFailed == op.name \in {"delete_shortcut", "save_shortcuts"} /\ logged

LoadedIsPersisted == op.name = "__init__" => Persisted

\* after a mutation that was saved, the file is one object holding the list
MutationWritten ==
    (op.name = "delete_shortcut" /\ raised = "none" /\ ~logged) =>
        /\ WellFormedFile(file)
        /\ file.members[1][2].items = shortcuts.items

\* a handler that started persisted and whose save did not fail ends persisted
StaysPersisted ==
    (/\ op.name \notin {"", "__init__"}
     /\ load_shortcuts(pre.file).value = pre.shortcuts
     /\ ~SaveFailed) => Persisted

\* C11: persisted after construction, persisted after every handler whose
\* save did not fail, and a saved deletion is in the file in full.
C11_PersistAfterMutation ==
    LoadedIsPersisted /\ MutationWritten /\ StaysPersisted

\* A deletion that left a record behind was written to the file.
C11_Witness ==
    /\ op.name = "delete_shortcut"
    /\ ~logged
    /\ shortcuts # pre.shortcuts
    /\ shortcuts.items # <<>>
    /\ file # pre.file
    /\ Persisted

-----------------------------------------------------------------------------
\* C12: when the write inside save_shortcuts fails during delete_shortcut(k),
\* no exception reaches the caller, the in-memory registry has the deletion
\* and is what later handlers see, and the next successful save writes that
\* in-memory state in full.

FailedSaveKeepsDeletion ==
    (op.name = "delete_shortcut" /\ logged /\ IsRegistry(pre.shortcuts)) =>
        /\ raised = "none"
        /\ shortcuts = PyList(SelectSeq(pre.shortcuts.items,
                                        LAMBDA s : Item(s, "keyword") # op.arg))
        /\ file \in {pre.file, OtherFile("invalid")}

AfterFailedSave ==
    (op.name = "delete_shortcut" /\ logged /\ IsRegistry(pre.shortcuts)) =>
        /\ op'.name = "execute_shortcut" /\ op'.arg = op.arg =>
                ret' = "False" /\ calls' = <<>>
        /\ op'.name \in {"query", "show_shortcut_list"} =>
                /\ raised' = "none"
                /\ \A i \in 1..Len(results') : results'[i].parameters # <<op.arg>>
        /\ op'.name \in {"save_shortcuts", "delete_shortcut"} /\ ~logged' =>
                /\ WellFormedFile(file')
                /\ file'.members[1][2].items = shortcuts'.items
                /\ op'.name = "save_shortcuts" => shortcuts' = shortcuts

\* C12: the deletion stays in memory after a failed save, the handlers that
\* follow see it, and the next save that succeeds writes it.
C12_SaveFailureKeepsMemory ==
    [](FailedSaveKeepsDeletion) /\ [][AfterFailedSave]_vars

\* The write failed after a deletion: the file is cut short, memory has the rest.
C12_Witness ==
    /\ op.name = "delete_shortcut"
    /\ logged
    /\ raised = "none"
    /\ Len(shortcuts.items) = 1
    /\ Len(pre.shortcuts.items) = 2
    /\ file = OtherFile("invalid")
    /\ pre.file # file

-----------------------------------------------------------------------------
\* C13: execute_shortcut on a found record lets no exception escape and leaves
\* the registry and the file alone; it returns True only after one OS launch
\* that completed, and returns False only after logging a failure.
C13_TrueOnlyAfterLaunch ==
    (/\ op.name = "execute_shortcut"
     /\ IsRegistry(pre.shortcuts)
     /\ Carries(pre.shortcuts, op.arg)) =>
        /\ raised = "none"
        /\ shortcuts = pre.shortcuts
        /\ file = pre.file
        /\ ret \in {"True", "False"}
        /\ ret = "True" => Len(calls) = 1 /\ ~logged
        /\ ret = "False" => Len(calls) = 1 /\ logged

-----------------------------------------------------------------------------
\* C14: what execute_shortcut does with openWith.

WithoutOpenWith(r) == SelectSeq(r, LAMBDA kv : kv[1] # "openWith")

OpenWithValues == {"", "prog", "other"}

\* the records that differ from r at most in openWith
OpenWithVariants(r) ==
    {WithoutOpenWith(r)} \cup {SetItem(r, "openWith", v) : v \in OpenWithValues}

\* C14: a found file record (a missing type counts as file) with openWith set
\* starts that program with the expanded path as its argument; with openWith
\* absent or empty the expanded path goes to the default handler; for a found
\* url, folder or app record the call made is the one made for every record
\* that differs from it only in openWith.
C14_OpenWithOnlyForFile ==
    (/\ op.name = "execute_shortcut"
     /\ IsRegistry(pre.shortcuts)
     /\ Carries(pre.shortcuts, op.arg)
     /\ TypeOf(FirstWith(pre.shortcuts, op.arg)) \in KnownTypes) =>
        LET r == FirstWith(pre.shortcuts, op.arg)
            path == expandvars(Get(r, "path", ""))
            open_with == Get(r, "openWith", "")
        IN  /\ (TypeOf(r) = "file" /\ open_with # "") =>
                    calls = <<Call("subprocess.Popen", <<open_with, path>>, FALSE)>>
            /\ (TypeOf(r) = "file" /\ open_with = "") =>
                    calls = <<Call("os.startfile", <<path>>, FALSE)>>
            /\ TypeOf(r) # "file" =>
                    /\ \A v \in OpenWithVariants(r) : calls = launch(v, path)
                    /\ Len(calls) = 1
                    /\ open_with # "" =>
                            \A j \in 1..Len(calls[1].argv) : calls[1].argv[j] # open_with

\* A folder record that names an openWith program was opened in the file manager.
C14_Witness ==
    /\ op.name = "execute_shortcut"
    /\ IsRegistry(pre.shortcuts)
    /\ Carries(pre.shortcuts, op.arg)
    /\ TypeOf(FirstWith(pre.shortcuts, op.arg)) = "folder"
    /\ Get(FirstWith(pre.shortcuts, op.arg), "openWith", "") = "prog"
    /\ calls = <<Call("subprocess.Popen", <<"explorer", "/home/u/d">>, TRUE)>>

-----------------------------------------------------------------------------
\* C15: in the editor, an accepted add leaves one more record, the form's,
\* at the end and every earlier record in place; an accepted edit of row i
\* leaves the length and every other index as they were and the form's
\* record at i; both have called save_data, which when it succeeds leaves the
\* file holding self.items; a cancelled dialog or no selected row leaves
\* self.items and the file as they were, with no save_data call.
C15_AddUpdateFrame ==
    /\ (edit.name = "add_item" /\ edit.accepted) =>
            /\ Len(self_items) = Len(edit.items) + 1
            /\ \A j \in 1..Len(edit.items) : self_items[j] = edit.items[j]
            /\ self_items[Len(self_items)] = edit.data
            /\ edit.save # "none"
            /\ edit.save = "ok" => data_file = ItemsFile(self_items)
    /\ (edit.name = "edit_item" /\ edit.accepted) =>
            /\ edit.row \in 0..(Len(edit.items) - 1)
            /\ Len(self_items) = Len(edit.items)
            /\ \A j \in 1..Len(edit.items) :
                    j # edit.row + 1 => self_items[j] = edit.items[j]
            /\ self_items[edit.row + 1] = edit.data
            /\ edit.save # "none"
            /\ edit.save = "ok" => data_file = ItemsFile(self_items)
    /\ (edit.name \in {"add_item", "edit_item"} /\ ~edit.accepted) =>
            /\ self_items = edit.items
            /\ data_file = edit.file
            /\ edit.save = "none"

\* The second of two records was edited and saved; the first stayed.
C15_Witness ==
    /\ edit.name = "edit_item"
    /\ edit.accepted
    /\ edit.row = 1
    /\ Len(edit.items) = 2
    /\ self_items[1] = edit.items[1]
    /\ self_items[2] # edit.items[2]
    /\ edit.save = "ok"
    /\ data_file = ItemsFile(self_items)
    /\ data_file # edit.file

-----------------------------------------------------------------------------
\* C16: a result that query or show_shortcut_list has just emitted for a
\* record r, and the execute_shortcut step that invokes its action.
ResultThenExecute ==
    (/\ op.name \in {"query", "show_shortcut_list"}
     /\ raised = "none"
     /\ IsRegistry(shortcuts)
     /\ op'.name = "execute_shortcut") =>
        \A i \in 1..Len(results), n \in 1..Len(shortcuts.items) :
            LET r == shortcuts.items[n]
            IN  (/\ results[i] = ShortcutResult(r)
                 /\ results[i].method = "execute_shortcut"
                 /\ results[i].parameters = <<op'.arg>>) =>
                    /\ raised' = "none"
                    /\ calls' = launch(r, expandvars(Get(r, "path", "")))

\* C16: for every registry, invoking the action of a result emitted for a
\* record r launches r's path with r's type, not those of another record.
C16_ResultExecutesItsRecord == [][ResultThenExecute]_vars

-----------------------------------------------------------------------------
\* C17: what the plugin alone can do to the registry.

\* a is b with some elements left out
RECURSIVE IsSubsequence(_, _)
IsSubsequence(a, b) ==
    IF a = <<>> THEN TRUE
    ELSE IF b = <<>> THEN FALSE
    ELSE IF Head(a) = Head(b) THEN IsSubsequence(Tail(a), Tail(b))
    ELSE IsSubsequence(a, Tail(b))

\* in memory is what the first start loaded, less some records
WithinFirstLoaded ==
    first_loaded.set =>
        IF first_loaded.value.t = "list"
        THEN shortcuts.t = "list"
             /\ IsSubsequence(shortcuts.items, first_loaded.value.items)
        ELSE running => shortcuts = first_loaded.value

\* no step but delete_shortcut writes the file, and no handler but
\* delete_shortcut assigns self.shortcuts
OnlyDeleteChanges ==
    op.name # "delete_shortcut" =>
        /\ file = pre.file
        /\ op.name \notin {"", "__init__"} => shortcuts = pre.shortcuts

\* C17: across query, list, execute, copy_path, delete_shortcut and restarts,
\* with each save succeeding or failing, the in-memory registry is a
\* subsequence of the registry loaded at the first start, and only
\* delete_shortcut changes the in-memory registry or writes the file.
C17_PluginMonotone == WithinFirstLoaded /\ OnlyDeleteChanges

\* Restarted after a deletion: one of the two records first loaded is back in memory.
C17_Witness ==
    /\ op.name = "__init__"
    /\ first_loaded.set
    /\ Len(first_loaded.value.items) = 2
    /\ Len(shortcuts.items) = 1
    /\ shortcuts.items[1] = first_loaded.value.items[2]
    /\ load_shortcuts(file).value = shortcuts

====
